---- MODULE Spec2Model ----
(***************************************************************************)
(* Model of src/net/secure_socket.cc: the process-wide OpenSSL initializer *)
(* (class OpenSSL), SSLContext creation, SecureSocket construction and the *)
(* handshake / read / write operations of SecureSocket.                    *)
(*                                                                         *)
(* SpecInit is the process from its start: threads racing for the first   *)
(* use of the initializer, context creation, session construction.  Spec  *)
(* starts where one context has been created (a state SpecInit reaches,   *)
(* see ServingUnreached) and runs the session operations.                  *)
(*                                                                         *)
(* The TLS library, the raw TCP socket and the event mechanism are the     *)
(* environment: every library call draws its result from the set of       *)
(* results the library can produce, and register_read / register_write    *)
(* are recorded as the list of signals the last call emitted.              *)
(***************************************************************************)
EXTENDS Integers, Sequences, FiniteSets, TLC

\* ---------------------------------------------------------------- bounds
NThreads == 2
MaxContexts == 1
MaxSessions == 2
MaxRec == 2

\* ------------------------------------------------------ program constants
SSL_max_record_length == 16384
NULL == 0

\* classifications SSL_get_error reports
SSL_ERROR_NONE == "SSL_ERROR_NONE"
SSL_ERROR_SSL == "SSL_ERROR_SSL"
SSL_ERROR_SYSCALL == "SSL_ERROR_SYSCALL"
SSL_ERROR_ZERO_RETURN == "SSL_ERROR_ZERO_RETURN"

Threads == 1..NThreads
FDs == 3..(2 + MaxSessions)
Bytes == {"a", "b"}

Min(a, b) == IF a < b THEN a ELSE b

RECURSIVE SeqsOfLen(_)
SeqsOfLen(n) ==
    IF n = 0 THEN {<<>>}
    ELSE {Append(s, b) : s \in SeqsOfLen(n - 1), b \in Bytes}

\* plaintext of one TLS record waiting in the library
Records == UNION {SeqsOfLen(n) : n \in 1..MaxRec}
\* payloads handed to write(): only data() and length() are used
Payloads == {<<>>} \cup {[i \in 1..n |-> "a"] : n \in 1..MaxRec}

VARIABLES
    ndebug,     \* build flag: TRUE when assert() is compiled out
    guard,      \* initialization guard of the function-local static `os`
    setup,      \* how often each statement of OpenSSL::OpenSSL() has run
    pc,         \* per thread: position inside global_context / initialize_new_context
    purpose,    \* per thread: who called global_context ("direct" or "ctx")
    contexts,   \* the SSL_CTX handles owned by live SSLContext objects
    sessions,   \* the live SecureSocket objects
    last,       \* what the most recent call did (result, exception, signals)
    aborted     \* the process died in a failed assert()

vars == <<ndebug, guard, setup, pc, purpose, contexts, sessions, last, aborted>>

\* ------------------------------------------------- OpenSSL::OpenSSL()
CtorSteps ==
    <<"locks", "library_init", "add_all_algorithms", "load_error_strings",
      "locking_callback", "id_callback">>

StepNames == {CtorSteps[i] : i \in 1..Len(CtorSteps)}

StepIndex(name) == CHOOSE i \in 1..Len(CtorSteps) : CtorSteps[i] = name

InitComplete == guard = "done" /\ \A n \in StepNames : setup[n] = 1

NoEvent == [kind |-> "none", rec |-> <<>>, err |-> SSL_ERROR_NONE, queue |-> 0]

NoCall ==
    [op |-> "none", sid |-> 0, ret |-> 0, outcome |-> "none", tag |-> "",
     result |-> <<>>, signals |-> <<>>, pre_eof |-> FALSE, ev |-> NoEvent,
     len |-> 0, ctx |-> 0, ssl |-> 0, fd |-> 0, lib_reads |-> 0]


\* ------------------------------------------------- OpenSSL::global_context()
\* a caller other than initialize_new_context enters global_context()
CallGlobalContext(t) ==
    /\ ~aborted
    /\ pc[t] = "idle"
    /\ pc' = [pc EXCEPT ![t] = "gc_enter"]
    /\ purpose' = [purpose EXCEPT ![t] = "direct"]
    /\ UNCHANGED <<ndebug, guard, setup, contexts, sessions, last, aborted>>

ContextsInFlight == {t \in Threads : purpose[t] = "ctx"}

\* a context is created without running the process-wide initializer first
CallInitializeNewContextNoInit(t) ==
    /\ ~aborted
    /\ pc[t] = "idle"
    /\ Cardinality(contexts) + Cardinality(ContextsInFlight) < MaxContexts
    /\ pc' = [pc EXCEPT ![t] = "ctx_new"]
    /\ purpose' = [purpose EXCEPT ![t] = "ctx"]
    /\ UNCHANGED <<ndebug, guard, setup, contexts, sessions, last, aborted>>

\* SSLContext::SSLContext() -> initialize_new_context(): first statement
CallInitializeNewContext(t) ==
    /\ ~aborted
    /\ pc[t] = "idle"
    /\ Cardinality(contexts) + Cardinality(ContextsInFlight) < MaxContexts
    /\ pc' = [pc EXCEPT ![t] = "gc_enter"]
    /\ purpose' = [purpose EXCEPT ![t] = "ctx"]
    /\ UNCHANGED <<ndebug, guard, setup, contexts, sessions, last, aborted>>

\* a static whose initialization is not guarded against concurrent entry
StaticInitEnterRacy(t) ==
    /\ ~aborted
    /\ pc[t] = "gc_enter"
    /\ IF guard = "done"
       THEN /\ pc' = [pc EXCEPT ![t] = "gc_ret"]
            /\ guard' = guard
       ELSE /\ guard' = "in_progress"
            /\ pc' = [pc EXCEPT ![t] = CtorSteps[1]]
    /\ UNCHANGED <<ndebug, setup, purpose, contexts, sessions, last, aborted>>

\* `static OpenSSL os;`: the first thread to arrive runs the constructor,
\* a thread arriving while it runs waits, later arrivals pass straight through
StaticInitEnter(t) ==
    /\ ~aborted
    /\ pc[t] = "gc_enter"
    /\ guard # "in_progress"
    /\ IF guard = "done"
       THEN /\ pc' = [pc EXCEPT ![t] = "gc_ret"]
            /\ guard' = guard
       ELSE /\ guard' = "in_progress"
            /\ pc' = [pc EXCEPT ![t] = CtorSteps[1]]
    /\ UNCHANGED <<ndebug, setup, purpose, contexts, sessions, last, aborted>>

\* locks_( CRYPTO_num_locks() ) cannot allocate: the constructor throws, the
\* static stays uninitialized and the exception leaves global_context()
CtorThrow(t) ==
    /\ ~aborted
    /\ pc[t] = "locks"
    /\ guard' = "uninit"
    /\ pc' = [pc EXCEPT ![t] = "idle"]
    /\ purpose' = [purpose EXCEPT ![t] = "none"]
    /\ last' = [NoCall EXCEPT !.op = "global_context", !.outcome = "bad_alloc"]
    /\ UNCHANGED <<ndebug, setup, contexts, sessions, aborted>>

\* one statement of OpenSSL::OpenSSL(); the last one completes the static
CtorStep(t) ==
    /\ ~aborted
    /\ pc[t] \in StepNames
    /\ setup' = [setup EXCEPT ![pc[t]] = @ + 1]
    /\ IF StepIndex(pc[t]) < Len(CtorSteps)
       THEN /\ pc' = [pc EXCEPT ![t] = CtorSteps[StepIndex(pc[t]) + 1]]
            /\ guard' = guard
       ELSE /\ pc' = [pc EXCEPT ![t] = "gc_ret"]
            /\ guard' = "done"
    /\ UNCHANGED <<ndebug, purpose, contexts, sessions, last, aborted>>

\* `return os;`
GlobalContextReturn(t) ==
    /\ ~aborted
    /\ pc[t] = "gc_ret"
    /\ IF purpose[t] = "ctx"
       THEN /\ pc' = [pc EXCEPT ![t] = "ctx_new"]
            /\ purpose' = purpose
       ELSE /\ pc' = [pc EXCEPT ![t] = "idle"]
            /\ purpose' = [purpose EXCEPT ![t] = "none"]
    /\ UNCHANGED <<ndebug, guard, setup, contexts, sessions, last, aborted>>

\* ------------------------------------------------- initialize_new_context()
FreshContext == Cardinality(contexts) + 1

\* the null check on SSL_CTX_new's result; SSLContext owns a handle only
\* when initialize_new_context returned one
NewContextOutcome(ret) ==
    IF ret = NULL
    THEN [outcome |-> "ssl_error", tag |-> "SSL_CTL_new", constructed |-> FALSE,
          ctx |-> NULL]
    ELSE [outcome |-> "returned", tag |-> "", constructed |-> TRUE, ctx |-> ret]

\* SSL_CTX_new( SSLv23_client_method() ), then the check, then ctx_( ... )
SSLCtxNew(t) ==
    /\ ~aborted
    /\ pc[t] = "ctx_new"
    /\ \E ret \in {NULL, FreshContext} :
         LET o == NewContextOutcome(ret) IN
         /\ contexts' = IF o.constructed THEN contexts \cup {o.ctx} ELSE contexts
         /\ last' = [NoCall EXCEPT !.op = "create", !.outcome = o.outcome,
                                   !.tag = o.tag, !.ctx = o.ctx]
    /\ pc' = [pc EXCEPT ![t] = "idle"]
    /\ purpose' = [purpose EXCEPT ![t] = "none"]
    /\ UNCHANGED <<ndebug, guard, setup, sessions, aborted>>

\* ------------------------------------------------- SecureSocket::SecureSocket
Sids == 1..Len(sessions)

FdsInUse == {sessions[s].fd : s \in Sids}

FreshSSL == Len(sessions) + 1

\* SSL_set_fd binds the handle to the descriptor when it succeeds
BoundFd(fd, set_fd_ret) == IF set_fd_ret = 1 THEN fd ELSE -1

NewSession(c, fd, ssl, set_fd_ret) ==
    [ctx |-> c, fd |-> fd, ssl |-> ssl, ssl_fd |-> BoundFd(fd, set_fd_ret),
     auto_retry |-> TRUE, eof |-> FALSE, state |-> "Created",
     hs_returned |-> FALSE]

\* a constructor that checks neither the handle nor the result of SSL_set_fd
SecureSocketCtorUnchecked(c, fd, ssl, set_fd_ret) ==
    [outcome |-> "returned", tag |-> "", constructed |-> TRUE,
     obj |-> NewSession(c, fd, ssl, IF ssl = NULL THEN 0 ELSE set_fd_ret)]

\* SecureSocket( TCPSocket && sock, SSL * ssl ): fd is sock's descriptor,
\* which the TCPSocket base takes over; set_fd_ret is what SSL_set_fd returns
SecureSocketCtor(c, fd, ssl, set_fd_ret) ==
    IF ssl = NULL
    THEN [outcome |-> "runtime_error",
          tag |-> "SecureSocket: constructor must be passed valid SSL structure",
          constructed |-> FALSE, obj |-> NewSession(c, fd, ssl, 0)]
    ELSE IF set_fd_ret = 0
    THEN [outcome |-> "ssl_error", tag |-> "SSL_set_fd",
          constructed |-> FALSE, obj |-> NewSession(c, fd, ssl, set_fd_ret)]
    ELSE [outcome |-> "returned", tag |-> "", constructed |-> TRUE,
          obj |-> NewSession(c, fd, ssl, set_fd_ret)]

\* SSLContext::new_secure_socket( TCPSocket && sock ): SSL_new( ctx_.get() )
\* yields a handle or NULL, and the constructor runs on it
NewSecureSocket(c, fd) ==
    /\ ~aborted
    /\ c \in contexts
    /\ Len(sessions) < MaxSessions
    /\ fd \in FDs \ FdsInUse
    /\ \E ssl \in {NULL, FreshSSL}, set_fd_ret \in {0, 1} :
         LET o == SecureSocketCtor(c, fd, ssl, set_fd_ret) IN
         /\ sessions' = IF o.constructed THEN Append(sessions, o.obj) ELSE sessions
         /\ last' = [NoCall EXCEPT !.op = "new_secure_socket",
                                   !.outcome = o.outcome, !.tag = o.tag,
                                   !.ctx = c, !.ssl = ssl, !.fd = fd,
                                   !.ret = IF ssl = NULL THEN 0 ELSE set_fd_ret,
                                   !.sid = IF o.constructed THEN Len(sessions) + 1 ELSE 0]
    /\ UNCHANGED <<ndebug, guard, setup, pc, purpose, contexts, aborted>>

\* ------------------------------------------------- handshake
\* SSL_connect / SSL_accept: 1 on success, 0 on a controlled failure,
\* negative on a fatal error
HandshakeRets == {-1, 0, 1}

\* what the library's session is after the handshake call
LibStateAfter(ret) == IF ret = 1 THEN "Established" ELSE "Failed"

\* SecureSocket::connect
ConnectOutcome(ret) ==
    IF ret = 0
    THEN [outcome |-> "ssl_error", tag |-> "SSL_connect", signals |-> <<>>]
    ELSE [outcome |-> "returned", tag |-> "", signals |-> <<"read", "write">>]

\* SecureSocket::accept: the success branch returns before register_read()
AcceptOutcome(ret) ==
    IF ret = 1
    THEN [outcome |-> "returned", tag |-> "", signals |-> <<>>]
    ELSE [outcome |-> "ssl_error", tag |-> "SSL_accept", signals |-> <<>>]

Handshake(s, op, ret, o) ==
    /\ sessions' = [sessions EXCEPT ![s].state = LibStateAfter(ret),
                                    ![s].hs_returned = (o.outcome = "returned")]
    /\ last' = [NoCall EXCEPT !.op = op, !.sid = s, !.ret = ret,
                              !.outcome = o.outcome, !.tag = o.tag,
                              !.signals = o.signals,
                              !.pre_eof = sessions[s].eof]
    /\ UNCHANGED <<ndebug, guard, setup, pc, purpose, contexts, aborted>>

Connect(s) ==
    /\ ~aborted
    /\ s \in Sids
    /\ sessions[s].state = "Created"
    /\ \E ret \in HandshakeRets : Handshake(s, "connect", ret, ConnectOutcome(ret))

Accept(s) ==
    /\ ~aborted
    /\ s \in Sids
    /\ sessions[s].state = "Created"
    /\ \E ret \in HandshakeRets : Handshake(s, "accept", ret, AcceptOutcome(ret))


\* ------------------------------------------------- SecureSocket::read
\* what one SSL_read call finds: a record's plaintext, a zero result with the
\* error classification and error-queue head SSL_get_error / ERR_get_error
\* would report, or a failure
DataEvents ==
    {[kind |-> "data", rec |-> r, err |-> SSL_ERROR_NONE, queue |-> 0] : r \in Records}

ZeroEvents ==
    {[kind |-> "zero", rec |-> <<>>, err |-> SSL_ERROR_ZERO_RETURN, queue |-> 0],
     [kind |-> "zero", rec |-> <<>>, err |-> SSL_ERROR_SYSCALL, queue |-> 0],
     [kind |-> "zero", rec |-> <<>>, err |-> SSL_ERROR_SYSCALL, queue |-> 1],
     [kind |-> "zero", rec |-> <<>>, err |-> SSL_ERROR_SSL, queue |-> 1]}

FailEvents ==
    {[kind |-> "fail", rec |-> <<>>, err |-> SSL_ERROR_SSL, queue |-> 1],
     [kind |-> "fail", rec |-> <<>>, err |-> SSL_ERROR_SYSCALL, queue |-> 0]}

\* a session whose handshake did not succeed only fails
ReadEvents(state) ==
    IF state = "Established" THEN DataEvents \cup ZeroEvents \cup FailEvents
    ELSE FailEvents

\* SSL_read( ssl, buffer, num ): at most num bytes of the record
SSL_read(ev, num) ==
    IF ev.kind = "data" THEN Min(Len(ev.rec), num)
    ELSE IF ev.kind = "zero" THEN 0
    ELSE -1

\* SSL_pending( ssl ): what SSL_read left of the record
SSL_pending(ev, num) ==
    IF ev.kind = "data" THEN Len(ev.rec) - Min(Len(ev.rec), num) ELSE 0

ReadAbort(eof, n) ==
    [outcome |-> "aborted", tag |-> "", result |-> <<>>, signals |-> <<>>,
     eof |-> eof, ret |-> n, lib_reads |-> 1]

ReadReturn(eof, n, data) ==
    [outcome |-> "returned", tag |-> "", result |-> data, signals |-> <<"read">>,
     eof |-> eof, ret |-> n, lib_reads |-> 1]

ReadThrow(eof, n) ==
    [outcome |-> "ssl_error", tag |-> "SSL_read", result |-> <<>>,
     signals |-> <<>>, eof |-> eof, ret |-> n, lib_reads |-> 1]

\* a read() that answers from the EOF flag without asking the library again
ReadOutcomeEofFirst(ev, eof, nd) ==
    LET bytes_read == SSL_read(ev, SSL_max_record_length) IN
    IF eof THEN [ReadReturn(TRUE, 0, <<>>) EXCEPT !.lib_reads = 0]
    ELSE IF bytes_read = 0 THEN ReadReturn(TRUE, 0, <<>>)
    ELSE IF bytes_read < 0 THEN ReadThrow(eof, bytes_read)
    ELSE ReadReturn(eof, bytes_read, SubSeq(ev.rec, 1, bytes_read))

\* a read() that takes every non-positive result for end-of-file
ReadOutcomeNoSign(ev, eof, nd) ==
    LET bytes_read == SSL_read(ev, SSL_max_record_length) IN
    IF bytes_read <= 0 THEN ReadReturn(TRUE, bytes_read, <<>>)
    ELSE ReadReturn(eof, bytes_read, SubSeq(ev.rec, 1, bytes_read))

\* SecureSocket::read on a session whose EOF flag is eof, in a build where
\* assert() is compiled out iff nd
ReadOutcome(ev, eof, nd) ==
    LET bytes_read == SSL_read(ev, SSL_max_record_length)
        pending == SSL_pending(ev, SSL_max_record_length)
    IN
    IF ~nd /\ pending # 0 THEN ReadAbort(eof, bytes_read)
    ELSE IF bytes_read = 0
    THEN IF ev.err = SSL_ERROR_ZERO_RETURN
         THEN ReadReturn(TRUE, bytes_read, <<>>)
         ELSE IF ev.err = SSL_ERROR_SYSCALL
         THEN IF ~nd /\ ev.queue # 0
              THEN ReadAbort(eof, bytes_read)
              ELSE ReadReturn(TRUE, bytes_read, <<>>)
         ELSE ReadReturn(eof, bytes_read, <<>>)
    ELSE IF bytes_read < 0
    THEN ReadThrow(eof, bytes_read)
    ELSE ReadReturn(eof, bytes_read, SubSeq(ev.rec, 1, bytes_read))

Read(s) ==
    /\ ~aborted
    /\ s \in Sids
    /\ sessions[s].hs_returned
    /\ \E ev \in ReadEvents(sessions[s].state) :
         LET o == ReadOutcome(ev, sessions[s].eof, ndebug) IN
         /\ sessions' = [sessions EXCEPT ![s].eof = o.eof]
         /\ aborted' = (o.outcome = "aborted")
         /\ last' = [NoCall EXCEPT !.op = "read", !.sid = s, !.ret = o.ret,
                                   !.outcome = o.outcome, !.tag = o.tag,
                                   !.result = o.result, !.signals = o.signals,
                                   !.pre_eof = sessions[s].eof, !.ev = ev,
                                   !.lib_reads = o.lib_reads]
    /\ UNCHANGED <<ndebug, guard, setup, pc, purpose, contexts>>

\* ------------------------------------------------- SecureSocket::write
\* SSL_write without partial-write mode: everything, 0 or a negative result
WriteRets(state, len) == IF state = "Established" THEN {-1, 0, len} ELSE {-1}

WriteOutcome(ret) ==
    IF ret < 0
    THEN [outcome |-> "ssl_error", tag |-> "SSL_write", signals |-> <<>>]
    ELSE [outcome |-> "returned", tag |-> "", signals |-> <<"write">>]

Write(s) ==
    /\ ~aborted
    /\ s \in Sids
    /\ sessions[s].hs_returned
    /\ \E message \in Payloads :
       \E ret \in WriteRets(sessions[s].state, Len(message)) :
         LET o == WriteOutcome(ret) IN
         /\ last' = [NoCall EXCEPT !.op = "write", !.sid = s, !.ret = ret,
                                   !.outcome = o.outcome, !.tag = o.tag,
                                   !.signals = o.signals, !.len = Len(message),
                                   !.pre_eof = sessions[s].eof]
    /\ UNCHANGED <<ndebug, guard, setup, pc, purpose, contexts, sessions, aborted>>

\* ------------------------------------------------- specifications
\* the process before anything of this file has run
InitProcess ==
    /\ ndebug \in BOOLEAN
    /\ guard = "uninit"
    /\ setup = [n \in StepNames |-> 0]
    /\ pc = [t \in Threads |-> "idle"]
    /\ purpose = [t \in Threads |-> "none"]
    /\ contexts = {}
    /\ sessions = <<>>
    /\ last = NoCall
    /\ aborted = FALSE

ThreadStep ==
    \E t \in Threads :
        \/ CallGlobalContext(t)
        \/ CallInitializeNewContext(t)
        \/ StaticInitEnter(t)
        \/ CtorThrow(t)
        \/ CtorStep(t)
        \/ GlobalContextReturn(t)
        \/ SSLCtxNew(t)

Construct == \E c \in 1..MaxContexts, fd \in FDs : NewSecureSocket(c, fd)

SessionStep ==
    \E s \in 1..MaxSessions :
        \/ Connect(s)
        \/ Accept(s)
        \/ Read(s)
        \/ Write(s)

\* concurrent first use of the initializer, context creation and the
\* construction of sessions
NextInit == ThreadStep \/ Construct

SpecInit == InitProcess /\ [][NextInit]_vars

\* the process after one thread has constructed one SSLContext
InitServing ==
    /\ ndebug \in BOOLEAN
    /\ guard = "done"
    /\ setup = [n \in StepNames |-> 1]
    /\ pc = [t \in Threads |-> "idle"]
    /\ purpose = [t \in Threads |-> "none"]
    /\ contexts = {1}
    /\ sessions = <<>>
    /\ last = [NoCall EXCEPT !.op = "create", !.outcome = "returned", !.ctx = 1]
    /\ aborted = FALSE

Init == InitServing

\* sessions are constructed from the context and used
Next == Construct \/ SessionStep

Spec == Init /\ [][Next]_vars

\* SpecInit reaches the state Spec starts from
ServingUnreached ==
    ~(/\ guard = "done"
      /\ setup = [n \in StepNames |-> 1]
      /\ pc = [t \in Threads |-> "idle"]
      /\ purpose = [t \in Threads |-> "none"]
      /\ contexts = {1}
      /\ sessions = <<>>
      /\ last = [NoCall EXCEPT !.op = "create", !.outcome = "returned", !.ctx = 1])

\* ------------------------------------------------- properties
LastSession == sessions[last.sid]

SignalSet == {last.signals[i] : i \in 1..Len(last.signals)}

\* C1: accept() with a library result of exactly 1 returns normally, the
\* session is Established and read-readiness (and only it) is signaled once;
\* every other result raises the error tagged SSL_accept and signals nothing
C1_AcceptSignalsRead ==
    last.op = "accept" =>
        IF last.ret = 1
        THEN /\ last.outcome = "returned"
             /\ LastSession.state = "Established"
             /\ last.signals = <<"read">>
        ELSE /\ last.outcome = "ssl_error"
             /\ last.tag = "SSL_accept"
             /\ last.signals = <<>>

\* C2: every failing result of the handshake initiation (zero or negative)
\* makes connect() raise the error tagged SSL_connect, leaves the session
\* Failed and signals no readiness
C2_ConnectFailureRaises ==
    (last.op = "connect" /\ last.ret # 1) =>
        /\ last.outcome = "ssl_error"
        /\ last.tag = "SSL_connect"
        /\ LastSession.state = "Failed"
        /\ last.signals = <<>>

\* C3 as stated: a read() on a session already flagged EOF returns an empty
\* result and does not raise, whether the library's read returns zero or a
\* negative result, and the flag stays set
C3_ReadAfterEofNeverRaises ==
    (last.op = "read" /\ last.pre_eof /\ last.ev.kind \in {"zero", "fail"}) =>
        /\ last.outcome # "ssl_error"
        /\ last.outcome = "returned" => last.result = <<>>
        /\ LastSession.eof

\* the error-queue assertion of the transport-closed branch fails
QueueAssertFails(ev) ==
    ~ndebug /\ ev.kind = "zero" /\ ev.err = SSL_ERROR_SYSCALL /\ ev.queue # 0

\* C3 amended: no call on a session clears its EOF flag; a read() on a
\* session already flagged EOF still asks the library: a zero result returns
\* empty without raising (unless the error-queue assertion stops the
\* process), a negative result raises the error tagged SSL_read
C3_ReadAfterEof ==
    /\ (last.sid # 0 /\ last.pre_eof) => LastSession.eof
    /\ (last.op = "read" /\ last.pre_eof) =>
          /\ last.lib_reads = 1
          /\ (last.ev.kind = "zero" /\ ~QueueAssertFails(last.ev)) =>
                (last.outcome = "returned" /\ last.result = <<>>)
          /\ last.ev.kind = "fail" =>
                (last.outcome = "ssl_error" /\ last.tag = "SSL_read")

C3_Witness ==
    /\ last.op = "read"
    /\ last.pre_eof
    /\ last.ev.kind = "fail"
    /\ last.outcome = "ssl_error"

\* C4: write() either wrote the whole payload, signals write-readiness and
\* returns, or raises the error tagged SSL_write; it never returns normally
\* when fewer bytes than the payload were written
C4_WriteAllOrRaise ==
    last.op = "write" =>
        \/ /\ last.outcome = "returned"
           /\ last.ret = last.len
           /\ last.signals = <<"write">>
        \/ /\ last.outcome = "ssl_error"
           /\ last.tag = "SSL_write"

\* C5: however the threads interleave, each statement of the one-time setup
\* runs at most once, and a thread that has returned from global_context()
\* finds the whole setup completed (each statement run exactly once)
C5_InitOnce ==
    /\ \A n \in StepNames : setup[n] <= 1
    /\ \A t \in Threads : pc[t] \in {"gc_ret", "ctx_new"} => InitComplete

\* one thread is in the last statement of the constructor while another
\* waits at the static's guard
C5_Witness ==
    \E t1, t2 \in Threads :
        /\ t1 # t2
        /\ pc[t1] = "id_callback"
        /\ pc[t2] = "gc_enter"
        /\ guard = "in_progress"

\* C6: a read() that returns an empty result leaves the session flagged EOF
\* and has signaled read-readiness, whatever the error classification
C6_EmptyReadImpliesEof ==
    (last.op = "read" /\ last.outcome = "returned" /\ last.result = <<>>) =>
        /\ LastSession.eof
        /\ last.signals = <<"read">>

\* C7: a null session handle makes construction fail with the generic error,
\* a failed construction adds no session, every session that exists has a
\* non-null handle bound to its raw socket's descriptor
C7_Construction ==
    /\ \A s \in Sids :
          /\ sessions[s].ssl # NULL
          /\ sessions[s].ssl_fd = sessions[s].fd
    /\ last.op = "new_secure_socket" =>
          /\ last.ssl = NULL => last.outcome = "runtime_error"
          /\ (last.ssl # NULL /\ last.ret = 0) =>
                (last.outcome = "ssl_error" /\ last.tag = "SSL_set_fd")
          /\ last.outcome # "returned" => last.sid = 0
          /\ last.outcome = "returned" =>
                /\ last.sid = Len(sessions)
                /\ LastSession.fd = last.fd
                /\ LastSession.ssl_fd = last.fd

\* a construction with a null handle failed while a session built earlier
\* from a valid handle exists
C7_Witness ==
    /\ last.op = "new_secure_socket"
    /\ last.ssl = NULL
    /\ last.outcome = "runtime_error"
    /\ Len(sessions) = 1

\* C8: a successful connect() signals read- and write-readiness, a
\* successful accept() signals read-readiness only, and write-readiness is
\* signaled only by a successful connect() or a successful write()
C8_SignalAsymmetry ==
    /\ (last.op = "connect" /\ last.ret = 1) => last.signals = <<"read", "write">>
    /\ (last.op = "accept" /\ last.ret = 1) => last.signals = <<"read">>
    /\ "write" \in SignalSet =>
          \/ last.op = "connect" /\ last.ret = 1
          \/ last.op = "write" /\ last.outcome = "returned"

\* C9: read() decides by the sign of the library's result: n > 0 returns
\* exactly the record's n bytes, signals read-readiness, leaves the session
\* Established and the EOF flag as it was; a negative result raises the
\* error tagged SSL_read, signals nothing and leaves the flag as it was; the
\* flag changes only on a zero result; the library's read is called once
C9_ReadBySign ==
    last.op = "read" =>
        /\ last.lib_reads <= 1
        /\ last.ret > 0 =>
              /\ last.ret \in 1..SSL_max_record_length
              /\ last.outcome = "returned"
              /\ Len(last.result) = last.ret
              /\ last.result = last.ev.rec
              /\ last.signals = <<"read">>
              /\ LastSession.state = "Established"
              /\ LastSession.eof = last.pre_eof
        /\ last.ret < 0 =>
              /\ last.outcome = "ssl_error"
              /\ last.tag = "SSL_read"
              /\ last.signals = <<>>
              /\ LastSession.eof = last.pre_eof
        /\ LastSession.eof # last.pre_eof => last.ret = 0

\* a record of the largest modelled size was read on a session whose EOF
\* flag was already set
C9_Witness ==
    /\ last.op = "read"
    /\ last.ret = MaxRec
    /\ last.result = last.ev.rec
    /\ last.pre_eof

\* C10: the process-wide initialization is complete before a context handle
\* is allocated and so before any session exists; a failed allocation raises
\* the error tagged SSL_CTL_new and leaves no context object; after
\* new_secure_socket the context is still there, whatever the outcome
C10_InitBeforeContext ==
    /\ (contexts # {} \/ sessions # <<>> \/ \E t \in Threads : pc[t] = "ctx_new")
          => InitComplete
    /\ NULL \notin contexts
    /\ (last.op = "create" /\ last.outcome # "returned") =>
          (last.outcome = "ssl_error" /\ last.tag = "SSL_CTL_new" /\ last.ctx = NULL)
    /\ last.op = "new_secure_socket" => last.ctx \in contexts
    /\ \A s \in Sids : sessions[s].ctx \in contexts

\* a second session was made from the context the first one came from
C10_Witness ==
    /\ Len(sessions) = 2
    /\ sessions[1].ctx = sessions[2].ctx
    /\ last.op = "new_secure_socket"
    /\ last.outcome = "returned"

====
